---- MODULE Spec2Model ----
(***************************************************************************)
(* Model of the hindunity backend: the two Flask route files               *)
(* src/api/index.py and src/endpoints.py, their shared credential cache    *)
(* (AuthManager), the best-effort media cleanup and the handlers that      *)
(* write to the tables `posts` and `twitter_posts`.                        *)
(*                                                                         *)
(* One behaviour runs one of the two route files (variable app);           *)
(* token_calls holds the get_token calls of concurrent requests.  The      *)
(* identity provider, the database and the object store are external:     *)
(* every call to them either returns or raises, chosen by the environment. *)
(***************************************************************************)
EXTENDS Integers, Sequences, FiniteSets, TLC

VARIABLES app, auth, clock, nlogins, posts, twitter_posts, nreq, resp,
          token_calls

vars ==
    <<app, auth, clock, nlogins, posts, twitter_posts, nreq, resp, token_calls>>

-----------------------------------------------------------------------------
(* Bounds of the model *)

\* requests served in one behaviour of Spec
MaxReq == 2
\* last clock reading (one tick is half of the token's time to live)
MaxClock == 2
\* last clock reading in the credential-cache specification
MaxAuthClock == 5
\* longest URL list handed to the media cleanup in SpecCleanup
MaxUrls == 3
\* requests served in one behaviour of SpecQueue
MaxQueueReq == 3
\* get_token calls in one behaviour of SpecRace
MaxCalls == 2
\* last clock reading in SpecRace
MaxRaceClock == 2
\* last reading of time.time() in SpecUpload, in clock readings (see
\* READINGS_PER_MS)
MaxStamp == 23

-----------------------------------------------------------------------------
(* Values *)

\* Python's None, for string-valued fields
None == "None"
\* Python's None, for a list-valued field (media_url, media_urls)
NoneList == <<"None">>
\* AuthManager.token = None
NoToken == 0
\* AuthManager.expires_at = None
NoTime == -1

INDEX == "api/index.py"
ENDPOINTS == "endpoints.py"
APPS == {INDEX, ENDPOINTS}

\* timedelta(hours=1), in clock ticks
TOKEN_TTL == 2

DEFAULT_BOT_USER_ID == "bdb9c10d-1127-476e-8b71-18acecc74824"
\* auth.user.id of the bot's service account
BOT_USER_ID == "bot-account-id"
\* the one row of twitter_id_map: username "mapped_user" -> this user_id
MAPPED_USER_ID == "mapped-user-id"

\* `not v` for a string-or-None value
Falsy(v) == v = None \/ v = ""
\* `not l` for a list-or-None value
FalsyList(l) == l = NoneList \/ l = <<>>

-----------------------------------------------------------------------------
(* Public URLs.  A URL is named by a string and stands for a sequence of   *)
(* text pieces; the piece PFX is one occurrence of                         *)
(* "{bucket}.s3.amazonaws.com/".                                           *)

PFX == "{bucket}.s3.amazonaws.com/"

UrlText(u) ==
    CASE u = "url_a"   -> <<"https://", PFX, "post-images/u1/1.png">>
      [] u = "url_b"   -> <<"https://", PFX, "post-videos/u1/2.mp4">>
      [] u = "url_two" -> <<"https://", PFX, "x/", PFX, "y.png">>
      [] u = "url_cdn" -> <<"https://cdn.example.com/", "c.png">>
      [] OTHER         -> <<>>

\* a list element that is no string (JSON number): `prefix in 5` raises TypeError
IsString(u) == u # "not_a_string"

URLS == {"url_a", "url_b", "url_two", "url_cdn", "not_a_string"}

\* f'{s3_bucket}.s3.amazonaws.com/' in media_url
ContainsPrefix(u) == \E i \in 1..Len(UrlText(u)) : UrlText(u)[i] = PFX

\* str.split(sep): the pieces between the occurrences of sep
RECURSIVE SplitAt(_, _, _)
SplitAt(text, sep, cur) ==
    IF text = <<>> THEN <<cur>>
    ELSE IF Head(text) = sep THEN <<cur>> \o SplitAt(Tail(text), sep, <<>>)
    ELSE SplitAt(Tail(text), sep, Append(cur, Head(text)))

Split(text, sep) == SplitAt(text, sep, <<>>)

\* media_url.split(prefix)[1]
S3Key(u) == Split(UrlText(u), PFX)[2]

-----------------------------------------------------------------------------
(* Credential Cache: class AuthManager *)

\* AuthManager.__init__
AuthManagerInit == [token |-> NoToken, user_id |-> None, expires_at |-> NoTime]

\* what supabase.auth.sign_in_with_password can do: return a session, return
\* no session, or raise
LOGIN_OUTCOMES == {"session", "no_session", "error"}

\* get_token with a cache check that never looks at the expiry
CacheCheckNoExpiry(file, cache, now) ==
    IF cache.token # NoToken THEN "valid" ELSE "refresh"

\* the condition of the first `if` of get_token; "TypeError" when it compares
\* datetime.now() with None
CacheCheck(file, cache, now) ==
    IF file = INDEX
    THEN IF cache.token # NoToken /\ cache.expires_at # NoTime /\ now < cache.expires_at
         THEN "valid" ELSE "refresh"
    ELSE IF cache.token = NoToken THEN "refresh"
         ELSE IF cache.expires_at = NoTime THEN "TypeError"
         ELSE IF now < cache.expires_at THEN "valid" ELSE "refresh"

\* the login branch of get_token: n successful logins were made so far, the
\* provider's next session carries the token n + 1
Login(cache, now, login, n) ==
    IF login = "session"
    THEN [auth |-> [token |-> n + 1, user_id |-> BOT_USER_ID,
                    expires_at |-> now + TOKEN_TTL],
          ret |-> n + 1, exc |-> None, io |-> <<"login">>, n |-> n + 1]
    ELSE [auth |-> cache, ret |-> NoToken,
          exc |-> IF login = "no_session" THEN "Bot login failed" ELSE "AuthApiError",
          io |-> <<"login">>, n |-> n]

\* AuthManager.get_token
get_token(file, cache, now, login, n) ==
    LET chk == CacheCheck(file, cache, now) IN
    IF chk = "TypeError"
    THEN [auth |-> cache, ret |-> NoToken, exc |-> "TypeError", io |-> <<>>, n |-> n]
    ELSE IF chk = "valid"
    THEN [auth |-> cache, ret |-> cache.token, exc |-> None, io |-> <<>>, n |-> n]
    ELSE Login(cache, now, login, n)

\* AuthManager.get_user_id
get_user_id(file, cache, now, login, n) ==
    LET r == get_token(file, cache, now, login, n) IN
    [auth |-> r.auth, ret |-> r.auth.token, user_id |-> r.auth.user_id,
     exc |-> r.exc, io |-> r.io, n |-> r.n]

-----------------------------------------------------------------------------
(* Media Cleanup: delete_media_from_storage *)

\* the body of the inner try, for one URL; fail: delete_object raises
DeleteOne(u, fail) ==
    IF ~IsString(u)
    THEN [attempt |-> <<>>, deleted |-> <<>>, exc |-> TRUE]
    ELSE IF ContainsPrefix(u)
    THEN [attempt |-> <<S3Key(u)>>,
          deleted |-> IF fail THEN <<>> ELSE <<S3Key(u)>>,
          exc |-> fail]
    ELSE [attempt |-> <<>>, deleted |-> <<>>, exc |-> FALSE]

\* the loop body without its own try/except
TryDeleteOneNoExcept(u, fail) == DeleteOne(u, fail)

\* the inner try with its `except Exception`: the exception is printed and dropped
TryDeleteOne(u, fail) == [DeleteOne(u, fail) EXCEPT !.exc = FALSE]

\* the for loop: an exception that leaves an iteration ends the loop
RECURSIVE DeleteLoop(_, _, _)
DeleteLoop(urls, i, fails) ==
    IF i > Len(urls)
    THEN [attempts |-> <<>>, deleted |-> <<>>, exc |-> FALSE]
    ELSE LET one == TryDeleteOne(urls[i], i \in fails) IN
         IF one.exc
         THEN [attempts |-> one.attempt, deleted |-> one.deleted, exc |-> TRUE]
         ELSE LET rest == DeleteLoop(urls, i + 1, fails) IN
              [attempts |-> one.attempt \o rest.attempts,
               deleted |-> one.deleted \o rest.deleted,
               exc |-> rest.exc]

\* delete_media_from_storage(media_urls); fails: the positions whose
\* delete_object call raises
delete_media_from_storage(media_urls, fails) ==
    IF FalsyList(media_urls)
    THEN [attempts |-> <<>>, deleted |-> <<>>, exc |-> FALSE]
    ELSE [DeleteLoop(media_urls, 1, fails) EXCEPT !.exc = FALSE]

-----------------------------------------------------------------------------
(* What a request handler carries while it runs: the state it has reached  *)
(* and the record of what it did.                                          *)
(*   io        the calls to external services, in order, then "respond"    *)
(*   cleanups  the argument of every delete_media_from_storage call        *)
(*   attempts  the Key of every delete_object call                         *)
(*   inserted  every row handed to a successful table insert               *)
(*   updated   the rows the update of twitter_posts returned               *)
(*   lookup    how the select on twitter_id_map ended                      *)

Ctx(cache, n, p, tp) ==
    [auth |-> cache, n |-> n, posts |-> p, twitter_posts |-> tp,
     io |-> <<>>, cleanups |-> <<>>, attempts |-> <<>>, deleted |-> <<>>,
     inserted |-> <<>>, updated |-> <<>>, s3_key |-> <<>>,
     exc |-> None, token |-> NoToken, user_id |-> None, lookup |-> "none",
     status |-> 0, success |-> "absent", error |-> None]

\* return jsonify({...}), status
Respond(c, status, success, error) ==
    [c EXCEPT !.status = status, !.success = success, !.error = error,
              !.io = Append(@, "respond")]

\* an exception that no handler catches: Flask's own 500 page, not JSON
Unhandled(c) ==
    [c EXCEPT !.status = 500, !.success = "absent", !.error = None,
              !.io = Append(@, "respond")]

\* a call of delete_media_from_storage(media_urls) from a handler
Cleanup(c, media_urls, fails) ==
    LET r == delete_media_from_storage(media_urls, fails) IN
    [c EXCEPT !.io = (@ \o <<"delete_media_from_storage">>)
                     \o [i \in 1..Len(r.attempts) |-> "delete_object"],
              !.cleanups = Append(@, media_urls),
              !.attempts = @ \o r.attempts,
              !.deleted = @ \o r.deleted,
              !.exc = IF r.exc THEN "cleanup" ELSE None]

-----------------------------------------------------------------------------
(* The database *)

\* the row the database keeps for an inserted record: a column the record
\* omits is NULL, and a new row of twitter_posts is not accepted yet
StoredRow(table, rec) ==
    IF table = "posts"
    THEN [rec EXCEPT !.link_preview = IF @ = "omitted" THEN None ELSE @]
    ELSE [user_id |-> rec.user_id, content |-> rec.content,
          post_type |-> rec.post_type, media_url |-> rec.media_url,
          twitter_unique_id |-> rec.twitter_unique_id,
          twitter_username |-> rec.twitter_username, source |-> rec.source,
          location |-> rec.location,
          link_preview |-> IF rec.link_preview = "omitted" THEN None
                           ELSE rec.link_preview,
          status |-> "pending"]

\* supabase.table(table).insert(rec).execute(); ok: the database accepts it
Insert(c, table, rec, ok) ==
    LET call == IF table = "posts" THEN "insert_posts" ELSE "insert_twitter_posts"
        c1 == [c EXCEPT !.io = Append(@, call)]
    IN IF ~ok THEN [c1 EXCEPT !.exc = "APIError"]
       ELSE IF table = "posts"
       THEN [c1 EXCEPT !.posts = Append(@, StoredRow(table, rec)),
                       !.inserted = Append(@, [table |-> table, rec |-> rec])]
       ELSE [c1 EXCEPT !.twitter_posts = Append(@, StoredRow(table, rec)),
                       !.inserted = Append(@, [table |-> table, rec |-> rec])]

\* table('twitter_id_map').select('user_id').eq('username', name).execute().data
TwitterIdMap(name) ==
    IF name = "mapped_user" THEN <<[user_id |-> MAPPED_USER_ID]>> ELSE <<>>

\* an update whose filter is lost: every row is selected
MatchingAll(tp, tid) == 1..Len(tp)

\* the positions of the rows .eq('twitter_unique_id', tid) selects
Matching(tp, tid) == {i \in 1..Len(tp) : tp[i].twitter_unique_id = tid}

\* the rows of tp at the positions in S, in table order
RECURSIVE RowsAt(_, _, _)
RowsAt(tp, S, i) ==
    IF i > Len(tp) THEN <<>>
    ELSE IF i \in S THEN <<tp[i]>> \o RowsAt(tp, S, i + 1)
    ELSE RowsAt(tp, S, i + 1)

\* table('twitter_posts').update({'status': 'accepted'}).eq(...).execute()
Update(c, tid, ok) ==
    LET c1 == [c EXCEPT !.io = Append(@, "update_twitter_posts")] IN
    IF ~ok THEN [c1 EXCEPT !.exc = "APIError"]
    ELSE LET S == Matching(c.twitter_posts, tid)
             tp == [i \in 1..Len(c.twitter_posts) |->
                      IF i \in S
                      THEN [c.twitter_posts[i] EXCEPT !.status = "accepted"]
                      ELSE c.twitter_posts[i]]
         IN [c1 EXCEPT !.twitter_posts = tp, !.updated = RowsAt(tp, S, 1)]

-----------------------------------------------------------------------------
(* Post Ingestion: POST /botposts and POST /pendingbotposts *)

\* `not data`: request.json is null or {}
NoData(data) ==
    \/ data.json = "null"
    \/ /\ data.content = None /\ data.twitter_unique_id = None
       /\ data.twitter_username = None /\ data.media_url = NoneList

\* the three validation `if`s; None when the body passes
Validate(data) ==
    IF NoData(data) THEN "No data provided"
    ELSE IF Falsy(data.content) THEN "content is required"
    ELSE IF Falsy(data.twitter_unique_id) THEN "twitter_unique_id is required"
    ELSE None

\* data.get(key, default) for a key the body does not carry
GetOr(v, default) == IF v = None THEN default ELSE v

\* post_data = {...}; endpoints.py builds it without link_preview
PostData(file, data, user_id) ==
    [user_id |-> user_id, content |-> data.content,
     post_type |-> GetOr(data.post_type, "text"),
     media_url |-> data.media_url,
     twitter_unique_id |-> data.twitter_unique_id,
     twitter_username |-> data.twitter_username,
     source |-> GetOr(data.source, "twitter"),
     location |-> data.location,
     link_preview |-> IF file = INDEX THEN data.link_preview ELSE "omitted"]

\* token = auth_manager.get_token(); user_id = auth_manager.get_user_id()
BotAuth(file, c, now, login) ==
    LET t == get_token(file, c.auth, now, login, c.n) IN
    IF t.exc # None
    THEN [c EXCEPT !.auth = t.auth, !.n = t.n, !.io = @ \o t.io, !.exc = t.exc]
    ELSE LET u == get_user_id(file, t.auth, now, login, t.n) IN
         [c EXCEPT !.auth = u.auth, !.n = u.n, !.io = (@ \o t.io) \o u.io,
                   !.exc = u.exc, !.token = t.ret, !.user_id = u.user_id]

\* an except block that answers without the compensating delete
PostExceptNoCleanup(c, data, fails) ==
    Respond([c EXCEPT !.exc = None], 500, "false", c.exc)

\* the `except Exception as e:` block of both post handlers
PostExcept(c, data, fails) ==
    LET msg == c.exc
        media_urls == IF NoData(data) THEN <<>> ELSE data.media_url
        c1 == IF ~FalsyList(media_urls) THEN Cleanup(c, media_urls, fails)
              ELSE [c EXCEPT !.exc = None]
    IN IF c1.exc # None THEN Unhandled(c1)
       ELSE Respond(c1, 500, "false", msg)

\* the handlers that log the bot in before they read the body:
\* create_post_by_bot of both files, and endpoints.py's
\* create_post_by_bot_for_approval
BotInsert(file, table, c0, data, now, login, insert_ok, fails) ==
    LET c == BotAuth(file, c0, now, login) IN
    IF c.exc # None THEN PostExcept(c, data, fails)
    ELSE LET v == Validate(data) IN
         IF v # None THEN Respond(c, 400, "false", v)
         ELSE LET ins == Insert(c, table, PostData(file, data, c.user_id), insert_ok)
              IN IF ins.exc # None THEN PostExcept(ins, data, fails)
                 ELSE Respond(ins, 201, "true", None)

\* @app.route('/botposts')
create_post_by_bot(file, c0, data, now, login, insert_ok, fails) ==
    BotInsert(file, "posts", c0, data, now, login, insert_ok, fails)

\* the user_id block of api/index.py's create_post_by_bot_for_approval;
\* lookup_ok: the select on twitter_id_map returns
ResolveUser(c, twitter_username, lookup_ok) ==
    IF ~Falsy(twitter_username)
    THEN LET c1 == [c EXCEPT !.io = Append(@, "select_twitter_id_map")] IN
         IF ~lookup_ok
         THEN [c1 EXCEPT !.user_id = DEFAULT_BOT_USER_ID, !.lookup = "error"]
         ELSE LET rows == TwitterIdMap(twitter_username) IN
              IF Len(rows) > 0
              THEN [c1 EXCEPT !.user_id = rows[1].user_id, !.lookup = "match"]
              ELSE [c1 EXCEPT !.user_id = DEFAULT_BOT_USER_ID,
                              !.lookup = "no_match"]
    ELSE [c EXCEPT !.user_id = DEFAULT_BOT_USER_ID]

\* @app.route('/pendingbotposts')
create_post_by_bot_for_approval(file, c0, data, now, login, lookup_ok, insert_ok, fails) ==
    IF file = ENDPOINTS
    THEN BotInsert(file, "twitter_posts", c0, data, now, login, insert_ok, fails)
    ELSE LET v == Validate(data) IN
         IF v # None THEN Respond(c0, 400, "false", v)
         ELSE LET c == ResolveUser(c0, data.twitter_username, lookup_ok)
                  ins == Insert(c, "twitter_posts",
                                PostData(file, data, c.user_id), insert_ok)
              IN IF ins.exc # None THEN PostExcept(ins, data, fails)
                 ELSE Respond(ins, 201, "true", None)

-----------------------------------------------------------------------------
(* Approval Transfer: POST /admin/accept-twitter-post (api/index.py only) *)

\* post_data = {...} copied from the updated row
CopyOf(post) ==
    [user_id |-> post.user_id, content |-> post.content,
     post_type |-> post.post_type, media_url |-> post.media_url,
     twitter_unique_id |-> post.twitter_unique_id,
     twitter_username |-> post.twitter_username, source |-> post.source,
     location |-> post.location, link_preview |-> post.link_preview]

\* an except block whose body carries only `error`
PlainExceptNoSuccess(c) == Respond([c EXCEPT !.exc = None], 500, "absent", c.exc)

\* the `except Exception as e:` block of the handlers without cleanup
PlainExcept(c) == Respond([c EXCEPT !.exc = None], 500, "false", c.exc)

\* an approval that undoes the status update when the insert fails
AcceptWithRollback(c0, data, update_ok, insert_ok) ==
    IF data.json = "null" \/ Falsy(data.twitter_unique_id)
    THEN Respond(c0, 400, "false", "twitter_unique_id is required")
    ELSE LET upd == Update(c0, data.twitter_unique_id, update_ok) IN
         IF upd.exc # None
         THEN Respond([upd EXCEPT !.exc = None], 500, "false", upd.exc)
         ELSE IF upd.updated = <<>>
         THEN Respond(upd, 404, "false", "Twitter post not found")
         ELSE LET ins == Insert(upd, "posts", CopyOf(upd.updated[1]), insert_ok) IN
              IF ins.exc # None
              THEN Respond([ins EXCEPT !.exc = None,
                                       !.twitter_posts = c0.twitter_posts],
                           500, "false", ins.exc)
              ELSE Respond(ins, 200, "true", None)

accept_twitter_post(c0, data, update_ok, insert_ok) ==
    IF data.json = "null" \/ Falsy(data.twitter_unique_id)
    THEN Respond(c0, 400, "false", "twitter_unique_id is required")
    ELSE LET upd == Update(c0, data.twitter_unique_id, update_ok) IN
         IF upd.exc # None THEN PlainExcept(upd)
         ELSE IF upd.updated = <<>>
         THEN Respond(upd, 404, "false", "Twitter post not found")
         ELSE LET ins == Insert(upd, "posts", CopyOf(upd.updated[1]), insert_ok) IN
              IF ins.exc # None THEN PlainExcept(ins)
              ELSE Respond(ins, 200, "true", None)

-----------------------------------------------------------------------------
(* POST /delete-media and POST /api/delete-user *)

\* data.get(...) on `data = request.json` (api/index.py) raises on null;
\* endpoints.py reads `request.json or {}`
NullBodyRaises(file, data) == file = INDEX /\ data.json = "null"

delete_media(file, c0, data, fails) ==
    IF NullBodyRaises(file, data)
    THEN PlainExcept([c0 EXCEPT !.exc = "AttributeError"])
    ELSE LET media_urls == IF data.json = "null" \/ data.media_urls = NoneList
                           THEN <<>> ELSE data.media_urls
         IN IF FalsyList(media_urls)
            THEN Respond(c0, 400, "false", "No media URLs provided")
            ELSE LET c == Cleanup(c0, media_urls, fails) IN
                 IF c.exc # None THEN PlainExcept(c)
                 ELSE Respond(c, 200, "true", None)

\* ok: supabase_admin.auth.admin.delete_user returns
delete_user(c0, data, ok) ==
    IF data.json = "null" \/ data.user_id = None
    THEN Respond(c0, 400, "false", "No data provided")
    ELSE IF Falsy(data.user_id)
    THEN Respond(c0, 400, "false", "user_id is required")
    ELSE LET c == [c0 EXCEPT !.io = Append(@, "admin_delete_user")] IN
         IF ~ok THEN PlainExcept([c EXCEPT !.exc = "AuthApiError"])
         ELSE Respond(c, 200, "true", None)

-----------------------------------------------------------------------------
(* Upload URL Issuer: POST /api/get-upload-url, /api/get-avatar-upload-url *)

FileText(name) ==
    CASE name = "photo.png"      -> <<"photo", ".", "png">>
      [] name = "clip.final.mp4" -> <<"clip", ".", "final", ".", "mp4">>
      [] OTHER                   -> <<name>>

\* file_name.split('.')[-1]
FileExt(name) ==
    LET parts == Split(FileText(name), ".") IN parts[Len(parts)]

\* the `except Exception as e:` block of the upload handlers
UploadExcept(c) == Respond([c EXCEPT !.exc = None], 500, "absent", c.exc)

\* s3_client.generate_presigned_url(...) and the 200 response
Presign(c0, key, presign_ok) ==
    LET c == [c0 EXCEPT !.io = Append(@, "generate_presigned_url")] IN
    IF ~presign_ok THEN UploadExcept([c EXCEPT !.exc = "ClientError"])
    ELSE Respond([c EXCEPT !.s3_key = key], 200, "absent", None)

\* ms: int(time.time() * 1000)
get_upload_url(file, c0, data, ms, presign_ok) ==
    IF NullBodyRaises(file, data)
    THEN UploadExcept([c0 EXCEPT !.exc = "AttributeError"])
    ELSE IF \/ Falsy(data.user_id) \/ Falsy(data.file_type)
            \/ Falsy(data.file_name) \/ Falsy(data.content_type)
    THEN Respond(c0, 400, "absent", "Missing required fields")
    ELSE LET folder == IF data.file_type = "image" THEN "post-images"
                       ELSE "post-videos"
         IN Presign(c0, [folder |-> folder, user_id |-> data.user_id,
                         timestamp |-> ms, ext |-> FileExt(data.file_name)],
                    presign_ok)

get_avatar_upload_url(file, c0, data, presign_ok) ==
    IF NullBodyRaises(file, data)
    THEN UploadExcept([c0 EXCEPT !.exc = "AttributeError"])
    ELSE IF \/ Falsy(data.user_id) \/ Falsy(data.file_name)
            \/ Falsy(data.content_type)
    THEN Respond(c0, 400, "absent", "Missing required fields")
    ELSE Presign(c0, [folder |-> "avatars", user_id |-> data.user_id,
                      file |-> "avatar", ext |-> FileExt(data.file_name)],
                 presign_ok)

\* @app.route('/health')
health_check(c0) == Respond(c0, 200, "true", None)

-----------------------------------------------------------------------------
(* Request bodies *)

CONTENTS == {None, "", "hello"}
TWITTER_IDS == {None, "t1"}
USERNAMES == {None, "mapped_user", "other_user"}
MEDIA_LISTS == {NoneList, <<"url_a", "url_b">>}

\* request.json of the post endpoints: null, or an object; the bodies that
\* fail validation carry no twitter_username
PostBodies ==
    [json : {"object"}, content : {"hello"}, twitter_unique_id : {"t1"},
     twitter_username : USERNAMES, media_url : MEDIA_LISTS,
     post_type : {None}, source : {None}, location : {None},
     link_preview : {None}]
    \cup
    [json : {"object"}, content : CONTENTS, twitter_unique_id : TWITTER_IDS,
     twitter_username : {None}, media_url : MEDIA_LISTS,
     post_type : {None}, source : {None}, location : {None},
     link_preview : {None}]
    \cup
    [json : {"null"}, content : {None}, twitter_unique_id : {None},
     twitter_username : {None}, media_url : {NoneList},
     post_type : {None}, source : {None}, location : {None},
     link_preview : {None}]

AcceptBodies ==
    [json : {"object"}, twitter_unique_id : {None, "", "t1", "t2"}]
    \cup [json : {"null"}, twitter_unique_id : {None}]

DeleteMediaBodies ==
    [json : {"object"},
     media_urls : MEDIA_LISTS \cup {<<>>, <<"url_b">>, <<"url_cdn", "url_a">>}]
    \cup [json : {"null"}, media_urls : {NoneList}]

DeleteUserBodies ==
    [json : {"object"}, user_id : {None, "", "u1"}]
    \cup [json : {"null"}, user_id : {None}]

UploadBodies ==
    [json : {"object"}, user_id : {None, "", "u1"},
     file_type : {None, "image", "video"},
     file_name : {None, "", "photo.png"},
     content_type : {None, "image/png"}]
    \cup
    [json : {"null"}, user_id : {None}, file_type : {None}, file_name : {None},
     content_type : {None}]

AvatarBodies ==
    [json : {"object"}, user_id : {None, "", "u1"},
     file_name : {None, "photo.png", "clip.final.mp4"},
     content_type : {None, "image/png"}]
    \cup
    [json : {"null"}, user_id : {None}, file_name : {None}, content_type : {None}]

-----------------------------------------------------------------------------
(* State machine *)

NoResp == [ep |-> "none"]

\* the route of the approval transfer
Accept == "/admin/accept-twitter-post"

Init ==
    /\ app \in APPS
    /\ auth = AuthManagerInit
    /\ clock = 0
    /\ nlogins = 0
    /\ posts = <<>>
    /\ twitter_posts = <<>>
    /\ nreq = 0
    /\ resp = NoResp
    /\ token_calls = <<>>

Here == Ctx(auth, nlogins, posts, twitter_posts)

\* no request is being answered
Idle == resp.ep = "none"

\* the server takes the next request
Ready == Idle /\ nreq < MaxReq

\* the handler's result r becomes the new state and the response
Serve(ep, data, r) ==
    /\ nreq' = nreq + 1
    /\ auth' = r.auth
    /\ nlogins' = r.n
    /\ posts' = r.posts
    /\ twitter_posts' = r.twitter_posts
    /\ resp' = [ep |-> ep, req |-> data, status |-> r.status,
                success |-> r.success, error |-> r.error, io |-> r.io,
                cleanups |-> r.cleanups, attempts |-> r.attempts,
                deleted |-> r.deleted, inserted |-> r.inserted,
                updated |-> r.updated, s3_key |-> r.s3_key,
                lookup |-> r.lookup]
    /\ UNCHANGED <<app, clock, token_calls>>

\* time passes between requests
Tick ==
    /\ Idle
    /\ clock < MaxClock
    /\ clock' = clock + 1
    /\ UNCHANGED <<app, auth, nlogins, posts, twitter_posts, nreq, resp, token_calls>>

\* the environment decides the outcome of a call only when the call is made:
\* r is the handler's result when every call succeeds
Called(r, call) == \E i \in 1..Len(r.io) : r.io[i] = call

LoginChoices(r) == IF Called(r, "login") THEN LOGIN_OUTCOMES ELSE {"session"}

OkChoices(r, call) == IF Called(r, call) THEN BOOLEAN ELSE {TRUE}

\* r: the handler's result when no delete_object call raises
FailChoices(r) == SUBSET (1..Len(r.attempts))

\* the positions of media_urls whose delete_object call raises, given the
\* numbers (in call order) of the delete_object calls that raise
FailedPositions(media_urls, calls) ==
    IF media_urls = NoneList THEN {}
    ELSE {i \in 1..Len(media_urls) :
            /\ IsString(media_urls[i]) /\ ContainsPrefix(media_urls[i])
            /\ Cardinality({j \in 1..i : IsString(media_urls[j])
                                         /\ ContainsPrefix(media_urls[j])})
               \in calls}

\* the response has been sent; the server waits for the next request
Deliver ==
    /\ ~Idle
    /\ resp' = NoResp
    /\ UNCHANGED <<app, auth, clock, nlogins, posts, twitter_posts, nreq, token_calls>>

Health == Ready /\ Serve("/health", [json |-> "null"], health_check(Here))

GetUploadUrl ==
    /\ Ready
    /\ \E data \in UploadBodies :
      \E presign_ok \in OkChoices(get_upload_url(app, Here, data, clock, TRUE),
                                  "generate_presigned_url") :
        Serve("/api/get-upload-url", data,
              get_upload_url(app, Here, data, clock, presign_ok))

GetAvatarUploadUrl ==
    /\ Ready
    /\ \E data \in AvatarBodies :
      \E presign_ok \in OkChoices(get_avatar_upload_url(app, Here, data, TRUE),
                                  "generate_presigned_url") :
        Serve("/api/get-avatar-upload-url", data,
              get_avatar_upload_url(app, Here, data, presign_ok))

BotPosts ==
    /\ Ready
    /\ \E data \in PostBodies :
      \E login \in LoginChoices(create_post_by_bot(app, Here, data, clock,
                                                   "session", TRUE, {})) :
        \E insert_ok \in OkChoices(create_post_by_bot(app, Here, data, clock,
                                                      login, TRUE, {}),
                                   "insert_posts") :
          \E calls \in FailChoices(create_post_by_bot(app, Here, data, clock,
                                                      login, insert_ok, {})) :
            Serve("/botposts", data,
                  create_post_by_bot(app, Here, data, clock, login, insert_ok,
                                     FailedPositions(data.media_url, calls)))

PendingBotPosts ==
    /\ Ready
    /\ \E data \in PostBodies :
      \E login \in LoginChoices(create_post_by_bot_for_approval(
                       app, Here, data, clock, "session", TRUE, TRUE, {})) :
        \E lookup_ok \in OkChoices(create_post_by_bot_for_approval(
                           app, Here, data, clock, login, TRUE, TRUE, {}),
                           "select_twitter_id_map") :
          \E insert_ok \in OkChoices(create_post_by_bot_for_approval(
                             app, Here, data, clock, login, lookup_ok, TRUE, {}),
                             "insert_twitter_posts") :
            \E calls \in FailChoices(create_post_by_bot_for_approval(
                           app, Here, data, clock, login, lookup_ok, insert_ok,
                           {})) :
              Serve("/pendingbotposts", data,
                    create_post_by_bot_for_approval(
                        app, Here, data, clock, login, lookup_ok, insert_ok,
                        FailedPositions(data.media_url, calls)))

DeleteMedia ==
    /\ Ready
    /\ \E data \in DeleteMediaBodies :
      \E calls \in FailChoices(delete_media(app, Here, data, {})) :
        Serve("/delete-media", data,
              delete_media(app, Here, data,
                           FailedPositions(data.media_urls, calls)))

DeleteUser ==
    /\ Ready
    /\ app = INDEX
    /\ \E data \in DeleteUserBodies :
         \E ok \in OkChoices(delete_user(Here, data, TRUE), "admin_delete_user") :
           Serve("/api/delete-user", data, delete_user(Here, data, ok))

AcceptTwitterPost ==
    /\ Ready
    /\ app = INDEX
    /\ \E data \in AcceptBodies :
         \E update_ok \in OkChoices(accept_twitter_post(Here, data, TRUE, TRUE),
                                    "update_twitter_posts") :
           \E insert_ok \in OkChoices(accept_twitter_post(Here, data, update_ok,
                                                          TRUE), "insert_posts") :
             Serve("/admin/accept-twitter-post", data,
                   accept_twitter_post(Here, data, update_ok, insert_ok))

Next ==
    \/ Tick
    \/ Deliver
    \/ Health
    \/ GetUploadUrl
    \/ GetAvatarUploadUrl
    \/ BotPosts
    \/ PendingBotPosts
    \/ DeleteMedia
    \/ DeleteUser
    \/ AcceptTwitterPost

Spec == Init /\ [][Next]_vars

-----------------------------------------------------------------------------
(* The credential cache on its own: any sequence of get_token and          *)
(* get_user_id calls on the global auth_manager, with time passing.        *)

AuthTick ==
    /\ clock < MaxAuthClock
    /\ clock' = clock + 1
    /\ UNCHANGED <<app, auth, nlogins, posts, twitter_posts, nreq, resp, token_calls>>

\* r: the result of the call; before: the cache the call found
AuthCall(name, login, r) ==
    /\ auth' = r.auth
    /\ nlogins' = r.n
    /\ resp' = [ep |-> name, at |-> clock, before |-> auth, login |-> login,
                ret |-> r.ret, exc |-> r.exc, io |-> r.io]
    /\ UNCHANGED <<app, clock, posts, twitter_posts, nreq, token_calls>>

CallGetToken ==
    \E login \in LOGIN_OUTCOMES :
        AuthCall("get_token", login, get_token(app, auth, clock, login, nlogins))

CallGetUserId ==
    \E login \in LOGIN_OUTCOMES :
        AuthCall("get_user_id", login,
                 get_user_id(app, auth, clock, login, nlogins))

NextAuth == AuthTick \/ CallGetToken \/ CallGetUserId

SpecAuth == Init /\ [][NextAuth]_vars

-----------------------------------------------------------------------------
(* Media Cleanup on its own: delete_media_from_storage on any list.        *)

RECURSIVE UrlLists(_)
UrlLists(n) ==
    IF n = 0 THEN {<<>>}
    ELSE LET shorter == UrlLists(n - 1) IN
         shorter \cup {Append(l, u) : l \in shorter, u \in URLS}

CallDeleteMediaFromStorage ==
    /\ Idle
    /\ \E media_urls \in UrlLists(MaxUrls) \cup {NoneList} :
         \E fails \in SUBSET (1..Len(media_urls)) :
           LET r == delete_media_from_storage(media_urls, fails) IN
           /\ resp' = [ep |-> "delete_media_from_storage", req |-> media_urls,
                       fails |-> fails, attempts |-> r.attempts,
                       deleted |-> r.deleted, exc |-> r.exc]
           /\ UNCHANGED <<app, auth, clock, nlogins, posts, twitter_posts, nreq, token_calls>>

NextCleanup == CallDeleteMediaFromStorage \/ Deliver

SpecCleanup == Init /\ [][NextCleanup]_vars

-----------------------------------------------------------------------------
(* The two route files side by side: the same request, from the same       *)
(* state, with the same outcomes of the external calls, handed to the      *)
(* handler of api/index.py and to the handler of endpoints.py.             *)

\* the routes both files define
SharedRoutes ==
    {"/health", "/api/get-upload-url", "/api/get-avatar-upload-url",
     "/botposts", "/pendingbotposts", "/delete-media"}

\* what a handler did, as seen from outside: the status code, the external
\* calls in order, the records inserted (with their table), the lists handed
\* to the cleanup and the keys of the delete_object calls
Outcome(r) ==
    [status |-> r.status, io |-> r.io, inserted |-> r.inserted,
     cleanups |-> r.cleanups, attempts |-> r.attempts, s3_key |-> r.s3_key]

\* the outcomes of a call are chosen when either file's handler makes it
EitherCalled(ra, rb, call) == Called(ra, call) \/ Called(rb, call)

\* both handlers answer the request; the server's state moves on with the
\* result of the file that is deployed (app)
ServeBoth(ep, data, ri, re) ==
    LET r == IF app = INDEX THEN ri ELSE re IN
    /\ nreq' = nreq + 1
    /\ auth' = r.auth
    /\ nlogins' = r.n
    /\ posts' = r.posts
    /\ twitter_posts' = r.twitter_posts
    /\ resp' = [ep |-> ep, req |-> data,
                index |-> Outcome(ri), endpoints |-> Outcome(re)]
    /\ UNCHANGED <<app, clock, token_calls>>

\* the outcomes of a call not made by either handler are not chosen
BothChoices(ri, re, call) ==
    IF EitherCalled(ri, re, call) THEN BOOLEAN ELSE {TRUE}

BothHealth ==
    /\ Ready
    /\ ServeBoth("/health", [json |-> "null"], health_check(Here),
                 health_check(Here))

BothGetUploadUrl ==
    /\ Ready
    /\ \E data \in UploadBodies :
      \E presign_ok \in BothChoices(get_upload_url(INDEX, Here, data, clock, TRUE),
                                    get_upload_url(ENDPOINTS, Here, data, clock, TRUE),
                                    "generate_presigned_url") :
        ServeBoth("/api/get-upload-url", data,
                  get_upload_url(INDEX, Here, data, clock, presign_ok),
                  get_upload_url(ENDPOINTS, Here, data, clock, presign_ok))

BothGetAvatarUploadUrl ==
    /\ Ready
    /\ \E data \in AvatarBodies :
      \E presign_ok \in BothChoices(get_avatar_upload_url(INDEX, Here, data, TRUE),
                                    get_avatar_upload_url(ENDPOINTS, Here, data, TRUE),
                                    "generate_presigned_url") :
        ServeBoth("/api/get-avatar-upload-url", data,
                  get_avatar_upload_url(INDEX, Here, data, presign_ok),
                  get_avatar_upload_url(ENDPOINTS, Here, data, presign_ok))

\* /botposts logs in first in both files, so one handler decides the choices
BothBotPosts ==
    /\ Ready
    /\ \E data \in PostBodies :
      \E login \in LoginChoices(create_post_by_bot(INDEX, Here, data, clock,
                                                   "session", TRUE, {})) :
        \E insert_ok \in OkChoices(create_post_by_bot(INDEX, Here, data, clock,
                                                      login, TRUE, {}),
                                   "insert_posts") :
          \E calls \in FailChoices(create_post_by_bot(INDEX, Here, data, clock,
                                                      login, insert_ok, {})) :
            ServeBoth("/botposts", data,
                      create_post_by_bot(INDEX, Here, data, clock, login,
                          insert_ok, FailedPositions(data.media_url, calls)),
                      create_post_by_bot(ENDPOINTS, Here, data, clock, login,
                          insert_ok, FailedPositions(data.media_url, calls)))

\* the login is endpoints.py's call, the lookup is api/index.py's; a body
\* with a media_url list has the same number of deletions in both files
\* whenever either file deletes
BothPendingBotPosts ==
    /\ Ready
    /\ \E data \in PostBodies :
      \E login \in LoginChoices(create_post_by_bot_for_approval(
                       ENDPOINTS, Here, data, clock, "session", TRUE, TRUE, {})) :
        \E lookup_ok \in OkChoices(create_post_by_bot_for_approval(
                           INDEX, Here, data, clock, login, TRUE, TRUE, {}),
                           "select_twitter_id_map") :
          \E insert_ok \in BothChoices(
                             create_post_by_bot_for_approval(
                               INDEX, Here, data, clock, login, lookup_ok, TRUE, {}),
                             create_post_by_bot_for_approval(
                               ENDPOINTS, Here, data, clock, login, lookup_ok, TRUE, {}),
                             "insert_twitter_posts") :
            \E calls \in FailChoices(create_post_by_bot_for_approval(
                             INDEX, Here, data, clock, login, lookup_ok,
                             insert_ok, {}))
                         \cup FailChoices(create_post_by_bot_for_approval(
                             ENDPOINTS, Here, data, clock, login, lookup_ok,
                             insert_ok, {})) :
              ServeBoth("/pendingbotposts", data,
                        create_post_by_bot_for_approval(
                            INDEX, Here, data, clock, login, lookup_ok, insert_ok,
                            FailedPositions(data.media_url, calls)),
                        create_post_by_bot_for_approval(
                            ENDPOINTS, Here, data, clock, login, lookup_ok,
                            insert_ok, FailedPositions(data.media_url, calls)))

\* a null body reaches the cleanup in neither file
BothDeleteMedia ==
    /\ Ready
    /\ \E data \in DeleteMediaBodies :
      \E calls \in FailChoices(delete_media(ENDPOINTS, Here, data, {})) :
        ServeBoth("/delete-media", data,
                  delete_media(INDEX, Here, data,
                               FailedPositions(data.media_urls, calls)),
                  delete_media(ENDPOINTS, Here, data,
                               FailedPositions(data.media_urls, calls)))

NextBoth ==
    \/ Tick
    \/ Deliver
    \/ BothHealth
    \/ BothGetUploadUrl
    \/ BothGetAvatarUploadUrl
    \/ BothBotPosts
    \/ BothPendingBotPosts
    \/ BothDeleteMedia

SpecBoth == Init /\ [][NextBoth]_vars

-----------------------------------------------------------------------------
(* The storage key of POST /api/get-upload-url as the text the f-string    *)
(* builds, and pairs of calls with any two readings of time.time().        *)

\* time.time() is read with a resolution finer than a millisecond: this many
\* distinct readings fall into one millisecond
READINGS_PER_MS == 2

\* a handler that keeps whole seconds of the reading
EpochSeconds(reading) == reading \div (READINGS_PER_MS * 1000)

\* int(time.time() * 1000)
EpochMillis(reading) == reading \div READINGS_PER_MS

DIGITS == <<"0", "1", "2", "3", "4", "5", "6", "7", "8", "9">>

\* str(n) for an int n >= 0, as the f-string formats {timestamp}
RECURSIVE Str(_)
Str(n) ==
    IF n < 10 THEN <<DIGITS[n + 1]>>
    ELSE Append(Str(n \div 10), DIGITS[(n % 10) + 1])

\* f"{folder}/{user_id}/{timestamp}.{file_ext}"
S3KeyText(key) ==
    <<key.folder, "/", key.user_id, "/">> \o Str(key.timestamp)
    \o <<".">> \o key.ext

KeyBodies ==
    [json : {"object"}, user_id : {"u1", "u2"}, file_type : {"image", "video"},
     file_name : {"photo.png"}, content_type : {"image/png"}]
    \cup
    [json : {"object"}, user_id : {"u1"}, file_type : {"image"},
     file_name : {"clip.final.mp4"}, content_type : {"image/png"}]

\* what is kept of a call: its body, its clock reading and the key it returned
KeyCall(data, reading, r) ==
    [req |-> data, at |-> reading, status |-> r.status,
     s3_key |-> r.s3_key,
     text |-> IF r.status = 200 THEN S3KeyText(r.s3_key) ELSE <<>>]

\* no call has been made since the last response was delivered
NoCall == [status |-> 0]

\* one call; prev is the call before it, if any.  Calls are compared in
\* pairs: a third call waits until the pair's responses are delivered
CallGetUploadUrl ==
    /\ IF Idle THEN TRUE ELSE resp.prev = NoCall
    /\ \E data \in KeyBodies, reading \in 0..MaxStamp, presign_ok \in BOOLEAN :
         LET r == get_upload_url(app, Here, data, EpochMillis(reading), presign_ok)
         IN /\ resp' = [ep |-> "/api/get-upload-url",
                        cur |-> KeyCall(data, reading, r),
                        prev |-> IF Idle THEN NoCall ELSE resp.cur]
            /\ UNCHANGED <<app, auth, clock, nlogins, posts, twitter_posts, nreq, token_calls>>

NextUpload == CallGetUploadUrl \/ Deliver

SpecUpload == Init /\ [][NextUpload]_vars

-----------------------------------------------------------------------------
(* get_token under concurrent requests.  The requests are served by        *)
(* threads that share the global auth_manager; nothing in get_token is     *)
(* locked, so a thread can be suspended between any two of its steps:      *)
(*   check             the condition of the first `if`                     *)
(*   login             sign_in_with_password and the `if not auth ...`     *)
(*   store_token       self.token = auth.session.access_token              *)
(*   store_user_id     self.user_id = auth.user.id                         *)
(*   store_expires_at  self.expires_at = datetime.now() + timedelta(...)   *)
(*   return            `return self.token`                                 *)
(* token_calls[k] is the k-th call started.  resp records which call       *)
(* stored each field of the cache last, and which stored last of all.      *)

\* a call that has just been entered
NewCall ==
    [pc |-> "check", tok |-> NoToken, exc |-> None, logins |-> 0,
     raced |-> {}]

NoWriter == 0

\* nothing has been stored yet
NoStores ==
    [ep |-> "get_token", token_by |-> NoWriter, user_id_by |-> NoWriter,
     expires_at_by |-> NoWriter, last_by |-> NoWriter]

Stores == IF Idle THEN NoStores ELSE resp

\* the token_calls that have seen the cache absent or expired and have stored
\* nothing yet
Refreshing == {j \in 1..Len(token_calls) : token_calls[j].pc \in {"login", "store_token"}}

\* a request reaches auth_manager.get_token()
GetTokenBegin ==
    /\ Len(token_calls) < MaxCalls
    /\ token_calls' = Append(token_calls, NewCall)
    /\ UNCHANGED <<app, auth, clock, nlogins, posts, twitter_posts, nreq, resp>>

\* a login branch that looks at the cache once more and skips the login
\* when another call has stored a token meanwhile
GetTokenLoginRecheck(k) ==
    /\ token_calls[k].pc = "login"
    /\ IF auth.token # NoToken
       THEN /\ token_calls' = [token_calls EXCEPT ![k].pc = "return"]
            /\ UNCHANGED nlogins
       ELSE \E login \in LOGIN_OUTCOMES :
              LET r == Login(auth, clock, login, nlogins) IN
              /\ token_calls' = [token_calls EXCEPT ![k].logins = @ + 1,
                                       ![k].tok = r.ret,
                                       ![k].exc = r.exc,
                                       ![k].pc = IF r.exc = None
                                                 THEN "store_token" ELSE "done"]
              /\ nlogins' = r.n
    /\ UNCHANGED <<app, auth, clock, posts, twitter_posts, nreq, resp>>

\* the first `if` of get_token
GetTokenCheck(k) ==
    /\ token_calls[k].pc = "check"
    /\ LET chk == CacheCheck(app, auth, clock) IN
       token_calls' = [token_calls EXCEPT
                   ![k].pc = IF chk = "valid" THEN "return"
                             ELSE IF chk = "refresh" THEN "login" ELSE "done",
                   ![k].exc = IF chk = "TypeError" THEN "TypeError" ELSE None,
                   ![k].raced = IF chk = "refresh" THEN Refreshing ELSE {}]
    /\ UNCHANGED <<app, auth, clock, nlogins, posts, twitter_posts, nreq, resp>>

\* sign_in_with_password, and the raise when it gives no session
GetTokenLogin(k) ==
    /\ token_calls[k].pc = "login"
    /\ \E login \in LOGIN_OUTCOMES :
         LET r == Login(auth, clock, login, nlogins) IN
         /\ token_calls' = [token_calls EXCEPT ![k].logins = @ + 1,
                                  ![k].tok = r.ret,
                                  ![k].exc = r.exc,
                                  ![k].pc = IF r.exc = None
                                            THEN "store_token" ELSE "done"]
         /\ nlogins' = r.n
    /\ UNCHANGED <<app, auth, clock, posts, twitter_posts, nreq, resp>>

\* self.token = auth.session.access_token
GetTokenStoreToken(k) ==
    /\ token_calls[k].pc = "store_token"
    /\ auth' = [auth EXCEPT !.token = token_calls[k].tok]
    /\ token_calls' = [token_calls EXCEPT ![k].pc = "store_user_id"]
    /\ resp' = [Stores EXCEPT !.token_by = k, !.last_by = k]
    /\ UNCHANGED <<app, clock, nlogins, posts, twitter_posts, nreq>>

\* self.user_id = auth.user.id
GetTokenStoreUserId(k) ==
    /\ token_calls[k].pc = "store_user_id"
    /\ auth' = [auth EXCEPT !.user_id = BOT_USER_ID]
    /\ token_calls' = [token_calls EXCEPT ![k].pc = "store_expires_at"]
    /\ resp' = [Stores EXCEPT !.user_id_by = k, !.last_by = k]
    /\ UNCHANGED <<app, clock, nlogins, posts, twitter_posts, nreq>>

\* self.expires_at = datetime.now() + timedelta(hours=1)
GetTokenStoreExpiresAt(k) ==
    /\ token_calls[k].pc = "store_expires_at"
    /\ auth' = [auth EXCEPT !.expires_at = clock + TOKEN_TTL]
    /\ token_calls' = [token_calls EXCEPT ![k].pc = "return"]
    /\ resp' = [Stores EXCEPT !.expires_at_by = k, !.last_by = k]
    /\ UNCHANGED <<app, clock, nlogins, posts, twitter_posts, nreq>>

\* return self.token, of either branch
GetTokenReturn(k) ==
    /\ token_calls[k].pc = "return"
    /\ token_calls' = [token_calls EXCEPT ![k].pc = "done"]
    /\ UNCHANGED <<app, auth, clock, nlogins, posts, twitter_posts, nreq, resp>>

RaceTick ==
    /\ clock < MaxRaceClock
    /\ clock' = clock + 1
    /\ UNCHANGED <<app, auth, nlogins, posts, twitter_posts, nreq, resp, token_calls>>

NextRace ==
    \/ RaceTick
    \/ GetTokenBegin
    \/ \E k \in 1..Len(token_calls) : GetTokenCheck(k)
    \/ \E k \in 1..Len(token_calls) : GetTokenLogin(k)
    \/ \E k \in 1..Len(token_calls) : GetTokenStoreToken(k)
    \/ \E k \in 1..Len(token_calls) : GetTokenStoreUserId(k)
    \/ \E k \in 1..Len(token_calls) : GetTokenStoreExpiresAt(k)
    \/ \E k \in 1..Len(token_calls) : GetTokenReturn(k)

SpecRace == Init /\ [][NextRace]_vars

-----------------------------------------------------------------------------
(* The approval queue of api/index.py on its own: valid posts sent to      *)
(* /pendingbotposts, also more than once with the same twitter_unique_id,  *)
(* and /admin/accept-twitter-post requests for them.                       *)

QueuePostBodies ==
    [json : {"object"}, content : {"hello"}, twitter_unique_id : {"t1", "t2"},
     twitter_username : {None, "mapped_user"}, media_url : {NoneList},
     post_type : {None}, source : {None}, location : {None},
     link_preview : {None}]

QueueAcceptBodies == [json : {"object"}, twitter_unique_id : {"t1", "t2"}]

\* endpoints.py has no /admin/accept-twitter-post route
InitQueue == Init /\ app = INDEX

QueueReady == Idle /\ nreq < MaxQueueReq

QueuePending ==
    /\ QueueReady
    /\ \E data \in QueuePostBodies :
        \E lookup_ok \in OkChoices(create_post_by_bot_for_approval(
                           app, Here, data, clock, "session", TRUE, TRUE, {}),
                           "select_twitter_id_map") :
          \E insert_ok \in BOOLEAN :
            Serve("/pendingbotposts", data,
                  create_post_by_bot_for_approval(
                      app, Here, data, clock, "session", lookup_ok, insert_ok,
                      {}))

QueueAccept ==
    /\ QueueReady
    /\ \E data \in QueueAcceptBodies :
         \E update_ok \in BOOLEAN :
           \E insert_ok \in OkChoices(accept_twitter_post(Here, data, update_ok,
                                                          TRUE), "insert_posts") :
             Serve(Accept, data,
                   accept_twitter_post(Here, data, update_ok, insert_ok))

NextQueue == QueuePending \/ QueueAccept \/ Deliver

SpecQueue == InitQueue /\ [][NextQueue]_vars

-----------------------------------------------------------------------------
(* Claims *)

PostEndpoints == {"/botposts", "/pendingbotposts"}
UploadEndpoints == {"/api/get-upload-url", "/api/get-avatar-upload-url"}

\* the body lacks content or twitter_unique_id (absent or empty)
LacksRequired(data) == Falsy(data.content) \/ Falsy(data.twitter_unique_id)

\* the handler made this call and no row was stored
InsertFailed(r) ==
    /\ Called(r, "insert_posts") \/ Called(r, "insert_twitter_posts")
    /\ r.inserted = <<>>

\* C1: a POST /botposts or /pendingbotposts request whose body lacks content
\* or twitter_unique_id is answered 400, inserts no row and deletes no
\* object, whatever the credential cache holds and however the login ends.
C1_InvalidPostOnlyRejected ==
    (resp.ep \in PostEndpoints /\ LacksRequired(resp.req))
    => /\ resp.status = 400
       /\ resp.inserted = <<>>
       /\ resp.cleanups = <<>>
       /\ resp.attempts = <<>>

\* C1, the failing input: an invalid /botposts body with a media_url list,
\* answered 500 after its objects were deleted
C1_InvalidPostCleanedUp ==
    /\ resp.ep = "/botposts"
    /\ Falsy(resp.req.content)
    /\ resp.req.media_url = <<"url_a", "url_b">>
    /\ resp.status = 500
    /\ resp.deleted = <<S3Key("url_a"), S3Key("url_b")>>

\* C2: when a valid post request with a non-empty media_url list L fails at
\* the table insert, delete_media_from_storage is called exactly once, with
\* L, every delete_object call comes before the response, and the response
\* is the 500 error whether or not the deletions succeed.
C2_CleanupBeforeError ==
    ( /\ resp.ep \in PostEndpoints
      /\ Validate(resp.req) = None
      /\ ~FalsyList(resp.req.media_url)
      /\ InsertFailed(resp) )
    => /\ resp.cleanups = <<resp.req.media_url>>
       /\ resp.status = 500
       /\ resp.success = "false"
       /\ resp.error # None
       /\ \E k \in 1..Len(resp.io) :
            /\ resp.io[k] = "delete_media_from_storage"
            /\ resp.io[k - 1] \in {"insert_posts", "insert_twitter_posts"}
            /\ \A j \in (k + 1)..(Len(resp.io) - 1) : resp.io[j] = "delete_object"
            /\ resp.io[Len(resp.io)] = "respond"
            /\ Len(resp.io) - 1 - k = Len(resp.attempts)

\* C2, its case: the insert failed, both deletions were tried and both failed
C2_AllDeletionsFailed ==
    /\ resp.ep \in PostEndpoints
    /\ InsertFailed(resp)
    /\ resp.req.media_url = <<"url_a", "url_b">>
    /\ Len(resp.attempts) = 2
    /\ resp.deleted = <<>>
    /\ resp.status = 500

AuthCalls == {"get_token", "get_user_id"}

\* C3: a get_token or get_user_id call that finds a token whose expiry has
\* not been reached returns that token, makes no login call and leaves the
\* cache alone; a call that finds an expired token makes exactly one login
\* call and, when the provider returns a session, returns and caches the new
\* token, which expires one TOKEN_TTL after the call.
C3_CachedUntilExpiry ==
    (resp.ep \in AuthCalls /\ resp.before.token # NoToken)
    => IF resp.at < resp.before.expires_at
       THEN /\ resp.ret = resp.before.token
            /\ resp.io = <<>>
            /\ auth = resp.before
            /\ resp.exc = None
       ELSE /\ resp.io = <<"login">>
            /\ resp.login = "session"
               => /\ resp.ret # resp.before.token
                  /\ resp.ret = nlogins
                  /\ auth.token = resp.ret
                  /\ auth.expires_at = resp.at + TOKEN_TTL
                  /\ resp.exc = None
            /\ resp.login # "session"
               => /\ auth = resp.before
                  /\ resp.exc # None

\* C3, its case: a call after expiry logged in once and got a new token
C3_ReloginAfterExpiry ==
    /\ resp.ep = "get_user_id"
    /\ resp.before.token # NoToken
    /\ resp.at >= resp.before.expires_at
    /\ resp.io = <<"login">>
    /\ resp.ret = 2
    /\ auth.token = 2

\* C4: an accept request whose twitter_unique_id matches no row of
\* twitter_posts leaves both tables unchanged and calls no insert; when the
\* update call returns, the response is 404.
C4_UnknownIdNotFound ==
    [][ ( /\ Idle
          /\ resp'.ep = Accept
          /\ resp'.req.json = "object"
          /\ ~Falsy(resp'.req.twitter_unique_id)
          /\ \A i \in 1..Len(twitter_posts) :
               twitter_posts[i].twitter_unique_id # resp'.req.twitter_unique_id )
        => /\ posts' = posts
           /\ twitter_posts' = twitter_posts
           /\ resp'.inserted = <<>>
           /\ ~Called(resp', "insert_posts")
           /\ resp'.status = IF resp'.error = "APIError" THEN 500 ELSE 404
           /\ resp'.success = "false" ]_vars

\* C4, its case: a pending row exists, another id is asked for, answered 404
C4_UnknownIdAmongRows ==
    /\ resp.ep = Accept
    /\ resp.req.twitter_unique_id = "t2"
    /\ Len(twitter_posts) = 1
    /\ twitter_posts[1].twitter_unique_id = "t1"
    /\ twitter_posts[1].status = "pending"
    /\ resp.status = 404

\* the Key of every URL of the list that is a string holding the prefix, in
\* list order
RECURSIVE KeysWithPrefix(_)
KeysWithPrefix(urls) ==
    IF urls = <<>> THEN <<>>
    ELSE (IF IsString(Head(urls)) /\ ContainsPrefix(Head(urls))
          THEN <<Split(UrlText(Head(urls)), PFX)[2]>> ELSE <<>>)
         \o KeysWithPrefix(Tail(urls))

\* C5: delete_media_from_storage calls delete_object for every URL of its
\* list that holds the bucket's public-URL prefix, whichever of the calls
\* raise and whichever elements are malformed, and never raises itself.
C5_EveryUrlAttempted ==
    resp.ep = "delete_media_from_storage"
    => /\ resp.exc = FALSE
       /\ resp.attempts = IF resp.req = NoneList THEN <<>>
                          ELSE KeysWithPrefix(resp.req)

\* C5, its case: the first deletion failed, the second element is malformed,
\* and the third URL was still tried
C5_LaterUrlStillTried ==
    /\ resp.ep = "delete_media_from_storage"
    /\ resp.req = <<"url_a", "not_a_string", "url_b">>
    /\ 1 \in resp.fails
    /\ resp.attempts = <<S3Key("url_a"), S3Key("url_b")>>
    /\ resp.deleted = <<S3Key("url_b")>>

\* C6: the row a valid POST /pendingbotposts stores carries the mapped
\* user_id when twitter_username is supplied and twitter_id_map has a row
\* for it, and DEFAULT_BOT_USER_ID when no row matches, when the lookup
\* raises and when no twitter_username is supplied; a lookup error does not
\* fail the request.
C6_PendingUserResolved ==
    (resp.ep = "/pendingbotposts" /\ Validate(resp.req) = None)
    => /\ resp.inserted # <<>>
          => resp.inserted[1].rec.user_id =
               IF /\ ~Falsy(resp.req.twitter_username)
                  /\ TwitterIdMap(resp.req.twitter_username) # <<>>
                  /\ resp.lookup # "error"
               THEN MAPPED_USER_ID
               ELSE DEFAULT_BOT_USER_ID
       /\ resp.lookup = "error"
          => (resp.status = 201 \/ InsertFailed(resp))

\* C6, the failing input: endpoints.py stores the bot's own user_id for a
\* mapped twitter_username
C6_PendingStoredForBot ==
    /\ app = ENDPOINTS
    /\ resp.ep = "/pendingbotposts"
    /\ resp.req.twitter_username = "mapped_user"
    /\ resp.status = 201
    /\ twitter_posts[Len(twitter_posts)].user_id = BOT_USER_ID

\* C7: a request answered 400 has made no call to the identity provider,
\* the database or the object store.
C7_NoCallBefore400 ==
    (resp.ep \in PostEndpoints \cup UploadEndpoints
                 \cup {Accept, "/delete-media", "/api/delete-user"}
     /\ resp.status = 400)
    => resp.io = <<"respond">>

\* C7, the failing input: /botposts logs in, then rejects the body
C7_LoginBefore400 ==
    /\ resp.ep = "/botposts"
    /\ resp.status = 400
    /\ resp.io = <<"login", "respond">>
    /\ auth.token # NoToken

\* a required field of the upload body is absent or empty (a null body
\* carries none)
UploadLacksRequired(ep, data) ==
    \/ data.json = "null"
    \/ Falsy(data.user_id) \/ Falsy(data.file_name) \/ Falsy(data.content_type)
    \/ (ep = "/api/get-upload-url" /\ Falsy(data.file_type))

\* C8: an upload-URL request with a required field absent or empty, a null
\* body included, is answered 400 and requests no signed URL.
C8_UploadMissingField400 ==
    (resp.ep \in UploadEndpoints /\ UploadLacksRequired(resp.ep, resp.req))
    => /\ resp.status = 400
       /\ ~Called(resp, "generate_presigned_url")

\* C8, the failing input: api/index.py answers a null body with 500
C8_NullBody500 ==
    /\ app = INDEX
    /\ resp.ep = "/api/get-upload-url"
    /\ resp.req.json = "null"
    /\ resp.status = 500
    /\ resp.error = "AttributeError"

HttpEndpoints ==
    PostEndpoints \cup UploadEndpoints
    \cup {"/health", Accept, "/delete-media", "/api/delete-user"}

C10_NoCompensation ==
    [][ ( /\ Idle
          /\ resp'.ep = Accept
          /\ resp'.updated # <<>>
          /\ InsertFailed(resp') )
        => /\ resp'.io = <<"update_twitter_posts", "insert_posts", "respond">>
           /\ resp'.status = 500
           /\ resp'.success = "false"
           /\ posts' = posts
           /\ Len(twitter_posts') = Len(twitter_posts)
           /\ \A i \in 1..Len(twitter_posts) :
                IF twitter_posts[i].twitter_unique_id
                     = resp'.req.twitter_unique_id
                THEN twitter_posts'[i]
                       = [twitter_posts[i] EXCEPT !.status = "accepted"]
                ELSE twitter_posts'[i] = twitter_posts[i] ]_vars

\* C10, its case: the pending row is accepted and posts is still empty
C10_AcceptedWithoutPost ==
    /\ resp.ep = Accept
    /\ resp.status = 500
    /\ resp.updated # <<>>
    /\ twitter_posts[1].status = "accepted"
    /\ twitter_posts[1].twitter_unique_id = resp.req.twitter_unique_id
    /\ posts = <<>>


\* C11: for every route both files define, every request body and the same
\* outcomes of the external calls, the handler of api/index.py and the
\* handler of endpoints.py return the same status code and make the same
\* external calls with the same arguments.
C11_SameLogic ==
    resp.ep \in SharedRoutes => resp.index = resp.endpoints

\* C11, the failing input: the same valid /pendingbotposts body is stored for
\* the mapped user by api/index.py, after a lookup and without a login, and
\* for the bot account by endpoints.py, after a login and without a lookup
C11_PendingDiverges ==
    /\ resp.ep = "/pendingbotposts"
    /\ resp.req.twitter_username = "mapped_user"
    /\ resp.index.status = 201
    /\ resp.endpoints.status = 201
    /\ resp.index.io = <<"select_twitter_id_map", "insert_twitter_posts", "respond">>
    /\ resp.endpoints.io = <<"login", "insert_twitter_posts", "respond">>
    /\ resp.index.inserted[1].rec.user_id = MAPPED_USER_ID
    /\ resp.endpoints.inserted[1].rec.user_id = BOT_USER_ID


\* the distance of two clock readings
Apart(a, b) == IF a >= b THEN a - b ELSE b - a

\* two successful calls with the same user_id, folder and extension
SameUserFolderExt ==
    /\ resp.ep = "/api/get-upload-url"
    /\ resp.cur.status = 200
    /\ resp.prev.status = 200
    /\ resp.cur.s3_key.user_id = resp.prev.s3_key.user_id
    /\ resp.cur.s3_key.folder = resp.prev.s3_key.folder
    /\ resp.cur.s3_key.ext = resp.prev.s3_key.ext

\* C12: two get-upload-url calls with the same user_id, folder and file
\* extension return the same storage key only if both read the same epoch
\* millisecond, and never when their clock readings are a millisecond or
\* more apart.
C12_KeyUniqueness ==
    SameUserFolderExt
    => /\ resp.cur.text = resp.prev.text
          => EpochMillis(resp.cur.at) = EpochMillis(resp.prev.at)
       /\ Apart(resp.cur.at, resp.prev.at) >= READINGS_PER_MS
          => resp.cur.text # resp.prev.text

\* C12, its case: the same body at readings exactly one millisecond apart,
\* the earlier one in millisecond 9 and the later one in millisecond 10
C12_OneMsApart ==
    /\ SameUserFolderExt
    /\ resp.cur.req = resp.prev.req
    /\ resp.cur.at = resp.prev.at + READINGS_PER_MS
    /\ EpochMillis(resp.prev.at) = 9
    /\ resp.prev.text = <<"post-images", "/", "u1", "/", "9", ".", "png">>
    /\ resp.cur.text = <<"post-images", "/", "u1", "/", "1", "0", ".", "png">>


\* the call has returned or raised
Done(k) == token_calls[k].pc = "done"

\* every call that was started has returned or raised
AllDone == \A k \in 1..Len(token_calls) : Done(k)

\* calls i and j both saw the cache absent or expired before either stored
Raced(i, j) == j \in token_calls[i].raced

\* two calls raced, their logins returned sessions and every call is over
RaceOver ==
    /\ AllDone
    /\ \E i, j \in 1..Len(token_calls) :
         /\ Raced(i, j)
         /\ token_calls[i].exc = None
         /\ token_calls[j].exc = None

C16_FieldsOfOneLogin ==
    /\ auth.token # NoToken
       => /\ auth.expires_at # NoTime
          /\ resp.user_id_by = resp.token_by
          /\ resp.expires_at_by = resp.token_by
    /\ \A k \in 1..Len(token_calls) : token_calls[k].exc # "TypeError"

\* C16, the failing input: in endpoints.py one call has stored its token and
\* not yet its expiry, and a second call's check has raised TypeError
C16_TypeErrorOnHalfStoredCache ==
    /\ app = ENDPOINTS
    /\ Len(token_calls) = 2
    /\ token_calls[1].pc \in {"store_user_id", "store_expires_at"}
    /\ auth.token = token_calls[1].tok
    /\ auth.expires_at = NoTime
    /\ token_calls[2].pc = "done"
    /\ token_calls[2].exc = "TypeError"
    /\ token_calls[2].logins = 0


\* the keys of the objects a media_url list refers to
KeysOfList(media_url) ==
    IF media_url = NoneList THEN {}
    ELSE {S3Key(media_url[j]) :
            j \in {n \in 1..Len(media_url) :
                     IsString(media_url[n]) /\ ContainsPrefix(media_url[n])}}

\* the keys of the objects the rows of a table refer to
KeysOfRows(rows) == UNION {KeysOfList(rows[i].media_url) : i \in 1..Len(rows)}

\* C14: the objects a post handler's compensating cleanup deletes are
\* referred to by no row of posts or twitter_posts.
C14_CleanupSparesStoredMedia ==
    resp.ep \in PostEndpoints
    => \A k \in 1..Len(resp.deleted) :
         resp.deleted[k] \notin KeysOfRows(posts) \cup KeysOfRows(twitter_posts)

\* C14, the failing input: a post with two media URLs is stored, the same
\* request is sent again, its insert is rejected and the cleanup deletes the
\* two objects the stored row refers to
C14_RetryDeletesStoredMedia ==
    /\ resp.ep = "/botposts"
    /\ Len(posts) = 1
    /\ posts[1].twitter_unique_id = resp.req.twitter_unique_id
    /\ posts[1].media_url = <<"url_a", "url_b">>
    /\ resp.req.media_url = posts[1].media_url
    /\ InsertFailed(resp)
    /\ resp.status = 500
    /\ resp.deleted = <<S3Key("url_a"), S3Key("url_b")>>


\* the rows of posts that hold the copy of a pending row
CopiesOf(row) ==
    {n \in 1..Len(posts) : posts[n] = StoredRow("posts", CopyOf(row))}

\* C15: after any sequence of accept requests, posts holds at most one copy
\* of each row of twitter_posts; accepting an accepted row again adds none.
C15_AcceptIdempotent ==
    \A i \in 1..Len(twitter_posts) :
      Cardinality(CopiesOf(twitter_posts[i])) <= 1

\* C15, the failing input: one pending row, accepted twice, copied twice
C15_AcceptedTwice ==
    /\ resp.ep = Accept
    /\ resp.status = 200
    /\ Len(twitter_posts) = 1
    /\ twitter_posts[1].status = "accepted"
    /\ twitter_posts[1].twitter_unique_id = resp.req.twitter_unique_id
    /\ Len(posts) = 2
    /\ CopiesOf(twitter_posts[1]) = {1, 2}

\* C17: after a successful accept request, every row the update set to
\* accepted has its copy in posts.
C17_EveryAcceptedRowCopied ==
    (resp.ep = Accept /\ resp.status = 200)
    => \A i \in 1..Len(resp.updated) : CopiesOf(resp.updated[i]) # {}

\* C17, the failing input: two pending rows with one twitter_unique_id, both
\* set to accepted by one request, only the first copied
C17_SecondRowNotCopied ==
    /\ resp.ep = Accept
    /\ resp.status = 200
    /\ Len(twitter_posts) = 2
    /\ resp.updated = twitter_posts
    /\ twitter_posts[1].status = "accepted"
    /\ twitter_posts[2].status = "accepted"
    /\ twitter_posts[1].twitter_unique_id = twitter_posts[2].twitter_unique_id
    /\ Len(posts) = 1
    /\ CopiesOf(twitter_posts[1]) = {1}
    /\ CopiesOf(twitter_posts[2]) = {}

====
